---- MODULE Spec2Model ----
(***************************************************************************)
(* C0lorNote: the note store of src/src/models/note.py on top of the       *)
(* session handling of src/src/models/db.py.                               *)
(*                                                                         *)
(* The database is modelled by its tables: notes, tags, categories and the *)
(* association table note_tag.  Every class method or instance method of   *)
(* the models is one action; the receiver of an instance method is named   *)
(* by its primary key.  `last` records the most recent call, what it       *)
(* returned and what it raised.                                            *)
(*                                                                         *)
(* The PyQt front end of src/modern_colornote.py keeps its notes in the    *)
(* main window and in one JSON file; its state is the window's fields, the *)
(* phase of the process and the disk.  Every slot is one action.           *)
(*                                                                         *)
(* Texts are sequences of one-character strings.  A nullable column or an  *)
(* optional argument is a sequence of length at most one: <<>> is None,    *)
(* <<v>> is the value v.                                                   *)
(***************************************************************************)
EXTENDS Integers, Sequences, FiniteSets

VARIABLES now, notes, tags, categories, note_tag, nextNote, last,
          phase, window_notes, filtered_notes, current_note_index, sidebar,
          note_editor, disk, files, main_window

\* The fields of the PyQt main window and of its widgets.
memory == <<window_notes, filtered_notes, current_note_index, sidebar, note_editor>>

\* The PyQt application: its process, its window, the disk.
qt == <<phase, memory, disk>>

\* The tkinter application: the database file with its backups, the window.
desktop == <<files, main_window>>

\* The two front ends.
app == <<qt, desktop>>

vars == <<now, notes, tags, categories, note_tag, nextNote, last, app>>

store == <<notes, tags, categories, note_tag>>

\* The database with its id counter.
orm == <<store, nextNote>>

\* ------------------------------------------------------------------ bounds

\* Number of Note.create calls that reach the INSERT (ids are never reused).
MaxNotes == 2
\* Last instant of the clock datetime.datetime.now().
MaxTime == 2
\* The setting "max_backups" (5 unless the user sets it).
max_backups == 1
\* Instants of the clock within one second.
TicksPerSecond == 2
\* The delay of root.after(30000, self.autosave), in steps of waiting.
AutosavePeriod == 1

\* ------------------------------------------------------------- value sets

None == <<>>
Some(v) == <<v>>
IsNone(o) == o = <<>>
Val(o) == o[1]

Range(s) == { s[i] : i \in DOMAIN s }

\* ------------------------------------------------------------ table views

NoteIds == { notes[i].id : i \in DOMAIN notes }
CategoryIds == { categories[i].id : i \in DOMAIN categories }

\* session.query(Note).filter(Note.id == note_id).first()
NoteIndex(id) == CHOOSE i \in DOMAIN notes : notes[i].id = id
NoteById(id) == notes[NoteIndex(id)]

\* The tag ids associated with a note through note_tag.
NoteTags(id) == { p[2] : p \in { q \in note_tag : q[1] = id } }

\* get_or_create without the query for an existing row: always an INSERT.
TagsAfterAlwaysCreate(tg, name) == Append(tg, [id |-> Len(tg) + 1, name |-> name])

\* Tag.get_or_create on a table tg (the name is compared exactly): the table
\* afterwards, and the id of the tag it returns.
TagsAfterGetOrCreate(tg, name) ==
    IF \E i \in DOMAIN tg : tg[i].name = name
    THEN tg
    ELSE Append(tg, [id |-> Len(tg) + 1, name |-> name])

TagIdIn(tg, name) == tg[CHOOSE i \in DOMAIN tg : tg[i].name = name].id

RECURSIVE TagsAfterAll(_, _)
TagsAfterAll(tg, names) ==
    IF names = <<>> THEN tg
    ELSE TagsAfterAll(TagsAfterGetOrCreate(tg, Head(names)), Tail(names))

\* A list of names that yields the same tag row twice.
HasRepeat(names) == \E i, j \in DOMAIN names : i < j /\ names[i] = names[j]

Result(op, arg, ret, raised) == [op |-> op, arg |-> arg, ret |-> ret, raised |-> raised]

\* ------------------------------------------------------------------- Init

\* The disk before the first run: no ~/.config/c0lornote, no notes.json.
FreshDisk == [dir |-> FALSE, file |-> None]

\* The database file by its modification time, no backup yet.
NewFiles == [db |-> 0, backup_dir |-> {}]

\* The fields of the tkinter MainWindow and the variables of its widgets
\* before its __init__ has loaded anything.  state is the state of the editor
\* widgets, after the timers of root.after that are pending.  edited is no
\* field of the program: it tells whether the user has changed the title, the
\* text or the pin checkbox since the current note was loaded into the
\* editor or saved from it.
NewMainWindow ==
    [ phase |-> "start", notes |-> <<>>, current_note |-> None,
      selected_note_index |-> -1, is_editing |-> FALSE, autosave_timer |-> None,
      title_var |-> <<>>, text_editor |-> <<>>, color_var |-> "default",
      pin_var |-> FALSE, search_var |-> <<>>, note_items |-> {},
      state |-> "disabled", after |-> {}, edited |-> FALSE ]

\* After initialize_db() on an empty database and before MainWindow.__init__
\* reaches load_notes(), on a disk d.
InitWith(d) ==
    /\ now = 0
    /\ notes = <<>>
    /\ tags = <<>>
    /\ categories = <<>>
    /\ note_tag = {}
    /\ nextNote = 1
    /\ last = Result("init", None, None, "none")
    /\ phase = "start"
    /\ window_notes = <<>>
    /\ filtered_notes = <<>>
    /\ current_note_index = -1
    /\ sidebar = [categories |-> <<>>, tags |-> <<>>]
    /\ note_editor = [mode |-> "text", text_editor |-> <<>>, code_editor |-> <<>>]
    /\ disk = d
    /\ files = NewFiles
    /\ main_window = NewMainWindow

Init == InitWith(FreshDisk)

\* datetime.datetime.now() advances between calls.
Tick ==
    /\ now < MaxTime
    /\ now' = now + 1
    /\ UNCHANGED <<notes, tags, categories, note_tag, nextNote, last>>

\* ------------------------------------------------------- Category and Tag

\* Category.create: name is UNIQUE, a repeated name fails the INSERT.
CategoryCreate(name) ==
    /\ IF \E i \in DOMAIN categories : categories[i].name = name
       THEN /\ UNCHANGED categories
            /\ last' = Result("Category.create", name, None, "IntegrityError")
       ELSE /\ categories' = Append(categories, [id |-> Len(categories) + 1, name |-> name])
            /\ last' = Result("Category.create", name, Len(categories) + 1, "none")
    /\ UNCHANGED <<now, notes, tags, note_tag, nextNote>>

\* ------------------------------------------------------------ Note.create

NewNote(title, content, plain_content, color, category_id) ==
    [ id |-> nextNote, title |-> title, content |-> content,
      plain_content |-> plain_content, created_date |-> now,
      modified_date |-> now, color |-> color, is_pinned |-> FALSE,
      category_id |-> category_id ]

\* Note.create.  Tag.get_or_create commits each missing tag in the shared
\* scoped session before the note is added, so the tags stay when the note's
\* INSERT fails (a name twice in the list: two instances of one row cannot
\* both be attached; an unknown category: the foreign key).
Create(title, content, plain_content, color, category_id, tag_names) ==
    /\ tags' = TagsAfterAll(tags, tag_names)
    /\ IF HasRepeat(tag_names)
       THEN /\ last' = Result("Note.create", tag_names, None, "InvalidRequestError")
            /\ UNCHANGED <<notes, note_tag, nextNote>>
       ELSE IF ~IsNone(category_id) /\ Val(category_id) \notin CategoryIds
       THEN /\ last' = Result("Note.create", category_id, None, "IntegrityError")
            /\ UNCHANGED <<notes, note_tag, nextNote>>
       ELSE /\ notes' = Append(notes, NewNote(title, content, plain_content, color, category_id))
            /\ note_tag' = note_tag \cup
                   { <<nextNote, TagIdIn(tags', tag_names[i])>> : i \in DOMAIN tag_names }
            /\ nextNote' = nextNote + 1
            /\ last' = Result("Note.create", tag_names, nextNote, "none")
    /\ UNCHANGED <<now, categories>>

\* ------------------------------------------------------------ Note.update

\* The keyword arguments of Note.update; None is an argument left out.
Patch(title, content, plain_content, color, is_pinned, category_id, tag_names) ==
    [ title |-> title, content |-> content, plain_content |-> plain_content,
      color |-> color, is_pinned |-> is_pinned, category_id |-> category_id,
      tag_names |-> tag_names ]

\* The "if x is not None: note.x = x" assignments.
Assigned(r, p) ==
    [ r EXCEPT
        !.title = IF IsNone(p.title) THEN @ ELSE p.title,
        !.content = IF IsNone(p.content) THEN @ ELSE p.content,
        !.plain_content = IF IsNone(p.plain_content) THEN @ ELSE p.plain_content,
        !.color = IF IsNone(p.color) THEN @ ELSE p.color,
        !.is_pinned = IF IsNone(p.is_pinned) THEN @ ELSE Val(p.is_pinned),
        !.category_id = IF IsNone(p.category_id) THEN @ ELSE p.category_id ]

\* The flush of a row: an UPDATE is emitted only when a column value differs
\* from the loaded one, and only an emitted UPDATE runs onupdate.
Flushed(r, r2) == IF r2 = r THEN r ELSE [r2 EXCEPT !.modified_date = now]

\* Note.update on the row with primary key id.  With a non-empty tag_names
\* the first Tag.get_or_create flushes and commits the pending changes and
\* closes the shared scoped session; note.tags.append on the detached,
\* expired note then raises.
Update(id, p) ==
    /\ IF id \notin NoteIds
       THEN /\ last' = Result("Note.update", <<id, p>>, None, "ValueError")
            /\ UNCHANGED <<notes, tags, note_tag>>
       ELSE IF ~IsNone(p.category_id) /\ Val(p.category_id) \notin CategoryIds
       THEN /\ last' = Result("Note.update", <<id, p>>, None, "IntegrityError")
            /\ UNCHANGED <<notes, tags, note_tag>>
       ELSE /\ notes' = [notes EXCEPT ![NoteIndex(id)] = Flushed(@, Assigned(@, p))]
            /\ IF IsNone(p.tag_names)
               THEN /\ UNCHANGED <<tags, note_tag>>
                    /\ last' = Result("Note.update", <<id, p>>, id, "none")
               ELSE IF Val(p.tag_names) = <<>>
               THEN /\ note_tag' = { q \in note_tag : q[1] # id }
                    /\ UNCHANGED tags
                    /\ last' = Result("Note.update", <<id, p>>, id, "none")
               ELSE /\ note_tag' = { q \in note_tag : q[1] # id }
                    /\ tags' = TagsAfterGetOrCreate(tags, Head(Val(p.tag_names)))
                    /\ last' = Result("Note.update", <<id, p>>, None, "DetachedInstanceError")
    /\ UNCHANGED <<now, categories, nextNote>>

\* ---------------------------------------------- delete, delete_by_id, pin

\* Removed without the delete of the association rows.
RemovedLeavingAssociations(id) ==
    /\ notes' = SelectSeq(notes, LAMBDA r : r.id # id)
    /\ UNCHANGED <<tags, categories, note_tag>>

\* session.delete(note): the row and its note_tag rows go, nothing else.
Removed(id) ==
    /\ notes' = SelectSeq(notes, LAMBDA r : r.id # id)
    /\ note_tag' = { q \in note_tag : q[1] # id }
    /\ UNCHANGED <<tags, categories>>

\* delete_by_id answering True whether or not the row was found.
DeleteByIdAlwaysTrue(id) ==
    /\ IF id \in NoteIds THEN Removed(id) ELSE UNCHANGED store
    /\ last' = Result("Note.delete_by_id", id, TRUE, "none")
    /\ UNCHANGED <<now, nextNote>>

\* Note.delete_by_id
DeleteById(id) ==
    /\ IF id \in NoteIds
       THEN /\ Removed(id)
            /\ last' = Result("Note.delete_by_id", id, TRUE, "none")
       ELSE /\ UNCHANGED store
            /\ last' = Result("Note.delete_by_id", id, FALSE, "none")
    /\ UNCHANGED <<now, nextNote>>

\* Note.delete on an instance whose id is id.
Delete(id) ==
    /\ IF id \in NoteIds
       THEN /\ Removed(id)
            /\ last' = Result("Note.delete", id, TRUE, "none")
       ELSE /\ UNCHANGED store
            /\ last' = Result("Note.delete", id, FALSE, "none")
    /\ UNCHANGED <<now, nextNote>>

\* toggle_pin that pins instead of negating.
TogglePinSetsPinned(id) ==
    /\ IF id \in NoteIds
       THEN /\ notes' = [notes EXCEPT ![NoteIndex(id)] =
                            [@ EXCEPT !.is_pinned = TRUE, !.modified_date = now]]
            /\ last' = Result("Note.toggle_pin", id, TRUE, "none")
       ELSE /\ UNCHANGED notes
            /\ \E b \in BOOLEAN : last' = Result("Note.toggle_pin", id, b, "none")
    /\ UNCHANGED <<now, tags, categories, note_tag, nextNote>>

\* Note.toggle_pin.  The UPDATE of is_pinned runs onupdate of modified_date.
\* When the row is gone the method returns the receiver's own is_pinned, a
\* value the store does not determine.
TogglePin(id) ==
    /\ IF id \in NoteIds
       THEN /\ notes' = [notes EXCEPT ![NoteIndex(id)] =
                            [@ EXCEPT !.is_pinned = ~@, !.modified_date = now]]
            /\ last' = Result("Note.toggle_pin", id, ~NoteById(id).is_pinned, "none")
       ELSE /\ UNCHANGED notes
            /\ \E b \in BOOLEAN : last' = Result("Note.toggle_pin", id, b, "none")
    /\ UNCHANGED <<now, tags, categories, note_tag, nextNote>>

\* ----------------------------------------------------------------- texts

\* lower() of the database: the ASCII letters.
Lower(c) == IF c = "A" THEN "a" ELSE IF c = "B" THEN "b" ELSE IF c = "X" THEN "x" ELSE c

LowerStr(s) == [i \in DOMAIN s |-> Lower(s[i])]

IsSpace(c) == c = " "

\* str.split(): the maximal runs of non-whitespace characters, in order.
RECURSIVE SplitFrom(_, _, _)
SplitFrom(s, word, acc) ==
    IF s = <<>>
    THEN IF word = <<>> THEN acc ELSE Append(acc, word)
    ELSE IF IsSpace(Head(s))
    THEN SplitFrom(Tail(s), <<>>, IF word = <<>> THEN acc ELSE Append(acc, word))
    ELSE SplitFrom(Tail(s), Append(word, Head(s)), acc)

Split(s) == SplitFrom(s, <<>>, <<>>)

\* The LIKE operator: % matches any run of characters, _ any one character.
RECURSIVE Like(_, _)
Like(pattern, s) ==
    IF pattern = <<>> THEN s = <<>>
    ELSE IF Head(pattern) = "%"
    THEN Like(Tail(pattern), s) \/ (s # <<>> /\ Like(pattern, Tail(s)))
    ELSE IF s = <<>> THEN FALSE
    ELSE (Head(pattern) = "_" \/ Head(pattern) = Head(s)) /\ Like(Tail(pattern), Tail(s))

\* column.ilike(pattern): lower(column) LIKE lower(pattern); NULL matches nothing.
ILike(column, pattern) ==
    /\ ~IsNone(column)
    /\ Like(LowerStr(pattern), LowerStr(Val(column)))

\* f"%{term}%"
SearchTerm(term) == <<"%">> \o term \o <<"%">>

\* ------------------------------------------- tags and categories, continued

TagName(t) == tags[CHOOSE i \in DOMAIN tags : tags[i].id = t].name

\* Tag.create: name is UNIQUE, a repeated name fails the INSERT.
TagCreate(name) ==
    /\ IF \E i \in DOMAIN tags : tags[i].name = name
       THEN /\ UNCHANGED tags
            /\ last' = Result("Tag.create", name, None, "IntegrityError")
       ELSE /\ tags' = Append(tags, [id |-> Len(tags) + 1, name |-> name])
            /\ last' = Result("Tag.create", name, Len(tags) + 1, "none")
    /\ UNCHANGED <<now, notes, categories, note_tag, nextNote>>

\* Tag.get_or_create called on its own.
TagGetOrCreate(name) ==
    /\ tags' = TagsAfterGetOrCreate(tags, name)
    /\ last' = Result("Tag.get_or_create", name, TagIdIn(tags', name), "none")
    /\ UNCHANGED <<now, notes, categories, note_tag, nextNote>>

\* The tags of note id whose name equals tag_name, letter case aside.
TagsNamedLike(id, tag_name) ==
    { t \in NoteTags(id) : LowerStr(TagName(t)) = LowerStr(tag_name) }

\* Note.add_tag whose handler swallows the error of the failed append and
\* reports success.
AddTagReportsSuccess(id, tag_name) ==
    /\ IF id \notin NoteIds
       THEN /\ UNCHANGED tags
            /\ last' = Result("Note.add_tag", <<id, tag_name>>, FALSE, "none")
       ELSE /\ tags' = TagsAfterGetOrCreate(tags, tag_name)
            /\ last' = Result("Note.add_tag", <<id, tag_name>>, TRUE, "none")
    /\ UNCHANGED <<now, notes, categories, note_tag, nextNote>>

\* Note.add_tag.  For a name the note does not carry, Tag.get_or_create
\* commits and closes the shared scoped session, note.tags on the detached,
\* expired note raises, and the handler's logging.error raises NameError
\* (note.py does not import logging).
AddTag(id, tag_name) ==
    /\ IF id \notin NoteIds
       THEN /\ UNCHANGED tags
            /\ last' = Result("Note.add_tag", <<id, tag_name>>, FALSE, "none")
       ELSE IF TagsNamedLike(id, tag_name) # {}
       THEN /\ UNCHANGED tags
            /\ last' = Result("Note.add_tag", <<id, tag_name>>, TRUE, "none")
       ELSE /\ tags' = TagsAfterGetOrCreate(tags, tag_name)
            /\ last' = Result("Note.add_tag", <<id, tag_name>>, None, "NameError")
    /\ UNCHANGED <<now, notes, categories, note_tag, nextNote>>

\* Note.remove_tag: the first tag of note.tags with that name, letter case
\* aside; the collection is loaded without an ORDER BY.
RemoveTag(id, tag_name) ==
    /\ IF id \in NoteIds /\ TagsNamedLike(id, tag_name) # {}
       THEN /\ \E t \in TagsNamedLike(id, tag_name) : note_tag' = note_tag \ {<<id, t>>}
            /\ last' = Result("Note.remove_tag", <<id, tag_name>>, TRUE, "none")
       ELSE /\ UNCHANGED note_tag
            /\ last' = Result("Note.remove_tag", <<id, tag_name>>, FALSE, "none")
    /\ UNCHANGED <<now, notes, tags, categories, nextNote>>

\* The notes a category owns through Category.notes.
OwnedBy(c) == { r.id : r \in { n \in Range(notes) : n.category_id = Some(c) } }

\* The delete of a category by the foreign key alone: ON DELETE SET NULL.
CategoryDeleteSetNull(c) ==
    /\ IF c \in CategoryIds
       THEN /\ categories' = SelectSeq(categories, LAMBDA r : r.id # c)
            /\ notes' = [i \in DOMAIN notes |->
                            IF notes[i].category_id = Some(c)
                            THEN [notes[i] EXCEPT !.category_id = None] ELSE notes[i]]
            /\ UNCHANGED note_tag
            /\ last' = Result("Category.delete", c, TRUE, "none")
       ELSE /\ UNCHANGED <<categories, notes, note_tag>>
            /\ last' = Result("Category.delete", c, FALSE, "none")
    /\ UNCHANGED <<now, tags, nextNote>>

\* session.delete(category) under relationship("Note", cascade="all,
\* delete-orphan"): the unit of work loads Category.notes and deletes every
\* owned note with its note_tag rows before the category row, so the
\* foreign key's SET NULL finds no row left to act on.
CategoryDelete(c) ==
    /\ IF c \in CategoryIds
       THEN /\ categories' = SelectSeq(categories, LAMBDA r : r.id # c)
            /\ notes' = SelectSeq(notes, LAMBDA r : r.category_id # Some(c))
            /\ note_tag' = { q \in note_tag : q[1] \notin OwnedBy(c) }
            /\ last' = Result("Category.delete", c, TRUE, "none")
       ELSE /\ UNCHANGED <<categories, notes, note_tag>>
            /\ last' = Result("Category.delete", c, FALSE, "none")
    /\ UNCHANGED <<now, tags, nextNote>>

\* ---------------------------------------------------------------- backups

\* strftime("%Y%m%d_%H%M%S"): the instant cut to its second.
Strftime(t) == t \div TicksPerSecond

\* f"{db_filename}_{timestamp}.bak" in the backup directory, by its timestamp.
BackupPath(t) == Strftime(t)

FileNames(dir) == { f.name : f \in dir }

\* shutil.copy2 of a file modified at mtime to the path name in dir: a file
\* of that name is replaced, the modification time is copied with the data.
Copy2(mtime, name, dir) ==
    { f \in dir : f.name # name } \cup { [name |-> name, mtime |-> mtime] }

\* cleanup_old_backups: the directories it can leave.  The files are sorted
\* by modification time, oldest first, and the first ones are removed; files
\* of one modification time stay in the order os.listdir gave them, which
\* is any order.
CleanupOldBackups(dir) ==
    IF Cardinality(dir) <= max_backups THEN { dir }
    ELSE { dir \ removed : removed \in
             { r \in SUBSET dir :
                 /\ Cardinality(r) = Cardinality(dir) - max_backups
                 /\ \A f \in r, k \in dir \ r : f.mtime <= k.mtime } }

\* backup_database
BackupDatabase ==
    /\ \E after \in CleanupOldBackups(Copy2(files.db, BackupPath(now), files.backup_dir)) :
          files' = [files EXCEPT !.backup_dir = after]
    /\ last' = Result("backup_database", None, Some(BackupPath(now)), "none")
    /\ UNCHANGED <<now, orm, qt, main_window>>

\* A commit that changed a table has written the database file.
Written == files' = [files EXCEPT !.db = now]

\* ---------------------------------------------------------------- queries

\* Before with the pinned key forgotten: ORDER BY modified_date DESC alone.
BeforeByModified(r, e) == r.modified_date > e.modified_date

\* ORDER BY is_pinned DESC, modified_date DESC: r is placed before e.
Before(r, e) ==
    \/ r.is_pinned /\ ~e.is_pinned
    \/ r.is_pinned = e.is_pinned /\ r.modified_date > e.modified_date

\* Rows that compare equal keep the order of the table scan: one statement
\* on one state of the tables returns one order.
RECURSIVE InsertRow(_, _)
InsertRow(s, r) ==
    IF s = <<>> THEN <<r>>
    ELSE IF Before(r, Head(s)) THEN <<r>> \o s
    ELSE <<Head(s)>> \o InsertRow(Tail(s), r)

RECURSIVE OrderBy(_)
OrderBy(rows) ==
    IF rows = <<>> THEN <<>>
    ELSE InsertRow(OrderBy(SubSeq(rows, 1, Len(rows) - 1)), rows[Len(rows)])

\* Note.get_all
GetAll == OrderBy(notes)

\* TextFilter without the "if query_text:" guard, one pattern on the title.
TextFilterUnguarded(r, query_text) == ILike(r.title, SearchTerm(query_text))

\* The filter of the search text on one row: every term in title or plain_content.
TextFilter(r, query_text) ==
    query_text # <<>> =>
        \A term \in Range(Split(query_text)) :
            \/ ILike(r.title, SearchTerm(term))
            \/ ILike(r.plain_content, SearchTerm(term))

CategoryFilter(r, category_id) ==
    ~IsNone(category_id) => r.category_id = category_id

TagFilter(r, tag_ids) ==
    \A t \in tag_ids : <<r.id, t>> \in note_tag

PinnedFilter(r, pinned_only) == pinned_only => r.is_pinned

\* Note.search; tag_ids is the set of the ids in the list.
Search(query_text, category_id, tag_ids, pinned_only) ==
    OrderBy(SelectSeq(notes, LAMBDA r :
        /\ TextFilter(r, query_text)
        /\ CategoryFilter(r, category_id)
        /\ TagFilter(r, tag_ids)
        /\ PinnedFilter(r, pinned_only)))

GetAllCall ==
    /\ last' = Result("Note.get_all", None, GetAll, "none")
    /\ UNCHANGED <<now, notes, tags, categories, note_tag, nextNote>>

SearchCall(query_text, category_id, tag_ids, pinned_only) ==
    /\ last' = Result("Note.search", <<query_text, category_id, tag_ids, pinned_only>>,
                      Search(query_text, category_id, tag_ids, pinned_only), "none")
    /\ UNCHANGED <<now, notes, tags, categories, note_tag, nextNote>>

\* ------------------------------------------------- PyQt front end: notes

\* str.strip()
RECURSIVE LStrip(_)
LStrip(s) == IF s # <<>> /\ IsSpace(Head(s)) THEN LStrip(Tail(s)) ELSE s

RECURSIVE RStrip(_)
RStrip(s) ==
    IF s # <<>> /\ IsSpace(s[Len(s)]) THEN RStrip(SubSeq(s, 1, Len(s) - 1)) ELSE s

Strip(s) == RStrip(LStrip(s))

\* text.split(','): the pieces between the commas, empty ones included.
RECURSIVE SplitComma(_, _, _)
SplitComma(s, piece, acc) ==
    IF s = <<>> THEN Append(acc, piece)
    ELSE IF Head(s) = "," THEN SplitComma(Tail(s), <<>>, Append(acc, piece))
    ELSE SplitComma(Tail(s), Append(piece, Head(s)), acc)

\* [tag.strip() for tag in text.split(',') if tag.strip()]
RECURSIVE StrippedNonEmpty(_)
StrippedNonEmpty(pieces) ==
    IF pieces = <<>> THEN <<>>
    ELSE IF Strip(Head(pieces)) = <<>> THEN StrippedNonEmpty(Tail(pieces))
    ELSE <<Strip(Head(pieces))>> \o StrippedNonEmpty(Tail(pieces))

ParseTags(text) == StrippedNonEmpty(SplitComma(text, <<>>, <<>>))

Untitled == <<"U", "n", "t", "i", "t", "l", "e", "d">>

\* Note.__init__ of modern_colornote.py: both dates are one datetime.now().
QtNote(title, content, is_code, tag_list, category) ==
    [ title |-> title, content |-> content, is_code |-> is_code,
      tags |-> tag_list, category |-> category,
      created_date |-> now, modified_date |-> now ]

\* datetime.isoformat() and datetime.fromisoformat(): the text of an instant,
\* and the instant of a text; a text that is no ISO date raises ValueError.
IsoFormat(t) == <<"T", t>>
IsIsoFormat(text) == Len(text) = 2 /\ text[1] = "T"
FromIsoFormat(text) == text[2]

\* Note.to_dict
ToDict(n) ==
    [ title |-> n.title, content |-> n.content, is_code |-> n.is_code,
      tags |-> n.tags, category |-> n.category,
      created_date |-> IsoFormat(n.created_date),
      modified_date |-> IsoFormat(n.modified_date) ]

\* dict.get(key, default)
Get(data, key, default) == IF key \in DOMAIN data THEN data[key] ELSE default

\* Note.from_dict: each key that is missing takes its default, the dates the
\* instant of the call.
FromDict(data) ==
    [ title |-> Get(data, "title", <<>>), content |-> Get(data, "content", <<>>),
      is_code |-> Get(data, "is_code", FALSE), tags |-> Get(data, "tags", <<>>),
      category |-> Get(data, "category", None),
      created_date |-> FromIsoFormat(Get(data, "created_date", IsoFormat(now))),
      modified_date |-> FromIsoFormat(Get(data, "modified_date", IsoFormat(now))) ]

FromDictRaises(data) ==
    \/ ~IsIsoFormat(Get(data, "created_date", IsoFormat(now)))
    \/ ~IsIsoFormat(Get(data, "modified_date", IsoFormat(now)))

\* ---------------------------------------------- PyQt front end: the file

\* The keys of the document, in the order save_notes puts them.
DocumentKeys == <<"notes", "categories", "tags">>

\* json.dump: the text of a document, one piece per key between the braces.
\* A text is written front to back; a write that stops early leaves a
\* proper prefix of it.
JsonDump(data) ==
    << <<"{", <<>>>> >>
    \o [ i \in 1 .. Len(SelectSeq(DocumentKeys, LAMBDA k : k \in DOMAIN data)) |->
            << SelectSeq(DocumentKeys, LAMBDA k : k \in DOMAIN data)[i],
               data[SelectSeq(DocumentKeys, LAMBDA k : k \in DOMAIN data)[i]] >> ]
    \o << <<"}", <<>>>> >>

\* json.load raises JSONDecodeError unless the text is a whole document.
IsJson(text) ==
    /\ Len(text) >= 2
    /\ text[1][1] = "{"
    /\ text[Len(text)][1] = "}"

\* json.load of a whole document: the dict of its keys.
JsonLoad(text) ==
    [ k \in { text[i][1] : i \in 2 .. Len(text) - 1 } |->
        text[CHOOSE i \in 2 .. Len(text) - 1 : text[i][1] = k][2] ]

\* The data save_notes hands to json.dump.
SavedData(ns, sb) ==
    [ notes |-> [i \in DOMAIN ns |-> ToDict(ns[i])],
      categories |-> sb.categories, tags |-> sb.tags ]

\* Where a write stops early: before the first piece, or before the last.
Stops == { 0, Len(DocumentKeys) + 1 }

\* What the file system does to one save_notes call: everything works, the
\* directory is missing and os.makedirs fails, open() fails, or the write
\* (or the close) fails after so many pieces.
SaveOutcomes ==
    { <<"ok", 0>>, <<"makedirs", 0>>, <<"open", 0>> }
    \cup { <<"write", k>> : k \in Stops }

\* os.makedirs(exist_ok=True) fails only for a directory that is missing.
Possible(d, o) == o[1] = "makedirs" => ~d.dir

\* The disk after save_notes of notes ns and sidebar sb under outcome o.
\* open(notes_file, "w") empties the file before the first piece is written.
DiskAfterSave(d, ns, sb, o) ==
    IF o[1] = "makedirs" THEN d
    ELSE IF o[1] = "open" THEN [d EXCEPT !.dir = TRUE]
    ELSE IF o[1] = "write"
    THEN [dir |-> TRUE, file |-> Some(SubSeq(JsonDump(SavedData(ns, sb)), 1, o[2]))]
    ELSE [dir |-> TRUE, file |-> Some(JsonDump(SavedData(ns, sb)))]

\* os.makedirs is called before the try: its OSError leaves save_notes.
SaveRaises(o) == IF o[1] = "makedirs" THEN "OSError" ELSE "none"

\* The except branch shows QMessageBox.critical(self, "Save Error", ...).
SaveDialog(o) == IF o[1] \in {"open", "write"} THEN Some("Save Error") ELSE None

\* ------------------------------------------- PyQt front end: the window

\* QTextEdit.toHtml(): a whole HTML document around what the editor holds;
\* setHtml of such a document followed by toHtml gives it back.
HtmlHead == "<!DOCTYPE HTML>"
ToHtml(text) == IF text # <<>> /\ Head(text) = HtmlHead THEN text ELSE <<HtmlHead>> \o text

\* NoteEditor.get_content
GetContent(e) == IF e.mode = "text" THEN ToHtml(e.text_editor) ELSE e.code_editor

\* NoteEditor.set_content; the tab change sets the mode.
SetContent(e, content, is_code) ==
    IF is_code THEN [e EXCEPT !.mode = "code", !.code_editor = content]
    ELSE [e EXCEPT !.mode = "text", !.text_editor = content]

\* filtered_notes holds the positions in window_notes of the notes it
\* refers to; set_notes makes it the whole list.
AllNotes(ns) == [i \in 1 .. Len(ns) |-> i]

\* The window, the disk and what the running slot has raised and shown.
Window ==
    [ notes |-> window_notes, filtered |-> filtered_notes,
      index |-> current_note_index, sidebar |-> sidebar, editor |-> note_editor,
      disk |-> disk, raised |-> "none", dialog |-> None ]

\* MainWindow.save_notes under outcome o.
SaveNotes(w, o) ==
    [ w EXCEPT !.disk = DiskAfterSave(w.disk, w.notes, w.sidebar, o),
               !.raised = SaveRaises(o),
               !.dialog = IF SaveDialog(o) = None THEN @ ELSE SaveDialog(o) ]

\* MainWindow.save_current_note
SaveCurrentNote(w, o) ==
    IF w.index < 0 THEN w
    ELSE IF w.index >= Len(w.filtered) THEN [w EXCEPT !.raised = "IndexError"]
    ELSE SaveNotes(
             [w EXCEPT !.notes[w.filtered[w.index + 1]] =
                           [@ EXCEPT !.content = GetContent(w.editor),
                                     !.modified_date = now]], o)

\* MainWindow.handle_note_selection
HandleNoteSelection(w, index, o) ==
    IF index < 0 \/ index >= Len(w.filtered) THEN w
    ELSE IF SaveCurrentNote(w, o).raised # "none" THEN SaveCurrentNote(w, o)
    ELSE [ SaveCurrentNote(w, o) EXCEPT
             !.index = index,
             !.editor = SetContent(@, SaveCurrentNote(w, o).notes[w.filtered[index + 1]].content,
                                   SaveCurrentNote(w, o).notes[w.filtered[index + 1]].is_code) ]

\* "for tag in tags: if tag not in sidebar.tags: sidebar.tags.append(tag)"
RECURSIVE WithNewTags(_, _)
WithNewTags(known, tag_list) ==
    IF tag_list = <<>> THEN known
    ELSE WithNewTags(IF Head(tag_list) \in Range(known) THEN known
                     ELSE Append(known, Head(tag_list)), Tail(tag_list))

\* NoteListWidget.create_new_note once the dialog is accepted.
CreateNewNote(w, title_text, is_code, category, tags_text, o) ==
    LET title == IF Strip(title_text) = <<>> THEN Untitled ELSE Strip(title_text)
        appended == Append(w.notes, QtNote(title, <<>>, is_code, ParseTags(tags_text), category))
        selected == HandleNoteSelection(
                        [w EXCEPT !.notes = appended, !.filtered = AllNotes(appended)],
                        Len(appended) - 1, o)
    IN  IF selected.raised # "none" THEN selected
        ELSE [selected EXCEPT !.sidebar.tags = WithNewTags(@, ParseTags(tags_text))]

\* MainWindow.delete_current_note once the question is answered Yes.
DeleteCurrentNote(w, o) ==
    IF w.index < 0 THEN w
    ELSE IF w.index >= Len(w.filtered) THEN [w EXCEPT !.raised = "IndexError"]
    ELSE LET note_index == w.filtered[w.index + 1]
             popped == [i \in 1 .. Len(w.notes) - 1 |->
                           IF i < note_index THEN w.notes[i] ELSE w.notes[i + 1]]
         IN  SaveNotes([w EXCEPT !.notes = popped, !.index = -1,
                                 !.filtered = AllNotes(popped)], o)

\* Whether s holds sub as a run of consecutive elements: Python's "in" on
\* strings.
OccursIn(sub, s) ==
    \E i \in 0 .. Len(s) - Len(sub) : SubSeq(s, i + 1, i + Len(sub)) = sub

\* The test of one note in NoteListWidget.filter_notes; a week is longer
\* than any run of the model.
PassesFilter(n, filter_type, filter_value) ==
    CASE filter_type = "recent" -> n.modified_date >= now - 7 * 86400 * TicksPerSecond
      [] filter_type = "code" -> n.is_code
      [] filter_type = "category" -> n.category = Some(filter_value)
      [] filter_type = "tag" -> filter_value \in Range(n.tags)
      [] filter_type = "search" ->
            \/ OccursIn(LowerStr(filter_value), LowerStr(n.title))
            \/ OccursIn(LowerStr(filter_value), LowerStr(n.content))
      [] OTHER -> TRUE

\* NoteListWidget.filter_notes, reached from MainWindow.handle_filter_change
\* and from search_notes: filtered_notes is replaced, update_list redraws the
\* list, and current_note_index of the window is left as it is.
FilterNotes(w, filter_type, filter_value) ==
    [w EXCEPT !.filtered =
        SelectSeq(AllNotes(w.notes),
                  LAMBDA i : PassesFilter(w.notes[i], filter_type, filter_value))]

\* NoteListWidget.search_notes, the slot of the search input.
SearchNotes(w, text) ==
    IF text # <<>> THEN FilterNotes(w, "search", text) ELSE FilterNotes(w, "all", <<>>)

\* MainWindow.closeEvent
CloseEvent(w, o1, o2) ==
    IF SaveCurrentNote(w, o1).raised # "none" THEN SaveCurrentNote(w, o1)
    ELSE SaveNotes(SaveCurrentNote(w, o1), o2)

\* The slot has run to w and leaves the process in phase ph.
BecomesIn(w, ph, op, arg) ==
    /\ window_notes' = w.notes
    /\ filtered_notes' = w.filtered
    /\ current_note_index' = w.index
    /\ sidebar' = w.sidebar
    /\ note_editor' = w.editor
    /\ disk' = w.disk
    /\ phase' = ph
    /\ last' = Result(op, arg, w.dialog, w.raised)
    /\ UNCHANGED <<now, orm>>

\* An exception that leaves a slot ends the process (PyQt6 calls qFatal for
\* it, no sys.excepthook is installed).
Becomes(w, op, arg) ==
    BecomesIn(w, IF w.raised = "none" THEN "running" ELSE "closed", op, arg)

\* ------------------------------------------- PyQt front end: the actions

\* The notes of create_sample_notes, made at the instant of the call.
SampleNotes ==
    << QtNote(<<"Welcome to C0lorNote!">>, <<"<h1>Welcome to C0lorNote</h1>">>, FALSE,
              << <<"welcome">>, <<"tutorial">> >>, Some(<<"Getting Started">>)),
       QtNote(<<"Python Hello World Example">>, <<"# A simple Python hello world example">>,
              TRUE, << <<"python">>, <<"example">> >>, Some(<<"Code Snippets">>)) >>

SampleSidebar ==
    [ categories |-> << <<"Getting Started">>, <<"Code Snippets">>, <<"Personal">>, <<"Work">> >>,
      tags |-> << <<"welcome">>, <<"tutorial">>, <<"python">>, <<"example">>, <<"important">> >> ]

\* MainWindow.create_sample_notes: memory only, the disk is not written.
CreateSampleNotes ==
    /\ window_notes' = SampleNotes
    /\ sidebar' = SampleSidebar
    /\ filtered_notes' = AllNotes(SampleNotes)

\* The try block of load_notes raises: no whole document, or a date that
\* fromisoformat rejects.
LoadRaises(text) ==
    \/ ~IsJson(text)
    \/ \E i \in DOMAIN Get(JsonLoad(text), "notes", <<>>) :
          FromDictRaises(Get(JsonLoad(text), "notes", <<>>)[i])

LoadedNotes(text) ==
    [ i \in DOMAIN Get(JsonLoad(text), "notes", <<>>) |->
        FromDict(Get(JsonLoad(text), "notes", <<>>)[i]) ]

\* load_notes with create_sample_notes followed by a save of the samples.
LoadNotesWritingSamples(makedirs_ok) ==
    /\ phase = "start"
    /\ makedirs_ok \/ ~disk.dir
    /\ phase' = "running"
    /\ CreateSampleNotes
    /\ disk' = [dir |-> TRUE, file |-> Some(JsonDump(SavedData(SampleNotes, SampleSidebar)))]
    /\ last' = Result("load_notes", disk.file, None, "none")
    /\ UNCHANGED <<current_note_index, note_editor, now, orm>>

\* MainWindow.load_notes, the last step of MainWindow.__init__.  os.makedirs
\* runs before the try; when the directory is missing and cannot be made its
\* OSError leaves the constructor.
LoadNotes(makedirs_ok) ==
    /\ phase = "start"
    /\ makedirs_ok \/ ~disk.dir
    /\ IF ~makedirs_ok
       THEN /\ phase' = "closed"
            /\ last' = Result("load_notes", disk.file, None, "OSError")
            /\ UNCHANGED <<memory, disk>>
       ELSE /\ phase' = "running"
            /\ disk' = [disk EXCEPT !.dir = TRUE]
            /\ UNCHANGED <<current_note_index, note_editor>>
            /\ IF disk.file = None
               THEN /\ CreateSampleNotes
                    /\ last' = Result("load_notes", disk.file, None, "none")
               ELSE IF LoadRaises(Val(disk.file))
               THEN /\ CreateSampleNotes
                    /\ last' = Result("load_notes", disk.file, Some("Load Error"), "none")
               ELSE /\ window_notes' = LoadedNotes(Val(disk.file))
                    /\ sidebar' = [categories |-> Get(JsonLoad(Val(disk.file)), "categories", <<>>),
                                   tags |-> Get(JsonLoad(Val(disk.file)), "tags", <<>>)]
                    /\ filtered_notes' = AllNotes(LoadedNotes(Val(disk.file)))
                    /\ last' = Result("load_notes", disk.file, None, "none")
    /\ UNCHANGED <<now, orm>>

\* The user starts the program again: a new MainWindow on the same disk.
Launch ==
    /\ phase = "closed"
    /\ phase' = "start"
    /\ window_notes' = <<>>
    /\ filtered_notes' = <<>>
    /\ current_note_index' = -1
    /\ sidebar' = [categories |-> <<>>, tags |-> <<>>]
    /\ note_editor' = [mode |-> "text", text_editor |-> <<>>, code_editor |-> <<>>]
    /\ last' = Result("__init__", None, None, "none")
    /\ UNCHANGED <<disk, now, orm>>

\* The user types: the editor that is shown holds text.
TypeText(text) ==
    /\ phase = "running"
    /\ note_editor' = IF note_editor.mode = "text"
                      THEN [note_editor EXCEPT !.text_editor = text]
                      ELSE [note_editor EXCEPT !.code_editor = text]
    /\ last' = Result("type", text, None, "none")
    /\ UNCHANGED <<phase, window_notes, filtered_notes, current_note_index, sidebar, disk,
                   now, orm>>

\* "+ New Note", the dialog accepted with these inputs.
NewNoteClicked(title_text, is_code, category, tags_text, o) ==
    /\ phase = "running"
    /\ Possible(disk, o)
    /\ Becomes(CreateNewNote(Window, title_text, is_code, category, tags_text, o),
               "create_new_note", title_text)

\* A click on the item with that index in the list.
NoteClicked(index, o) ==
    /\ phase = "running"
    /\ Possible(disk, o)
    /\ Becomes(HandleNoteSelection(Window, index, o), "handle_note_selection", index)

\* Ctrl+S
SaveCurrentNoteTriggered(o) ==
    /\ phase = "running"
    /\ Possible(disk, o)
    /\ Becomes(SaveCurrentNote(Window, o), "save_current_note", o)

\* "Save All"
SaveNotesTriggered(o) ==
    /\ phase = "running"
    /\ Possible(disk, o)
    /\ Becomes(SaveNotes(Window, o), "save_notes", o)

\* "Delete Note", the question answered Yes.
DeleteTriggered(o) ==
    /\ phase = "running"
    /\ Possible(disk, o)
    /\ Becomes(DeleteCurrentNote(Window, o), "delete_current_note", o)

\* A click in the sidebar: a smart view, a category or a tag.
FilterClicked(filter_type, filter_value) ==
    /\ phase = "running"
    /\ Becomes(FilterNotes(Window, filter_type, filter_value),
               "handle_filter_change", <<filter_type, filter_value>>)

\* The search input holds text.
SearchInputChanged(text) ==
    /\ phase = "running"
    /\ Becomes(SearchNotes(Window, text), "search_notes", text)

\* The window is closed: both saves, then the process ends.
Closed(o1, o2) ==
    /\ phase = "running"
    /\ Possible(disk, o1)
    /\ Possible(SaveCurrentNote(Window, o1).disk, o2)
    /\ BecomesIn(CloseEvent(Window, o1, o2), "closed", "closeEvent", <<o1, o2>>)

\* The process is killed inside save_notes ("Save All") after the file was
\* opened and so many pieces were written.
KilledInSaveNotes(pieces) ==
    /\ phase = "running"
    /\ phase' = "closed"
    /\ disk' = DiskAfterSave(disk, window_notes, sidebar, <<"write", pieces>>)
    /\ last' = Result("save_notes", <<"killed", pieces>>, None, "none")
    /\ UNCHANGED <<memory, now, orm>>

\* Somebody removes ~/.config/c0lornote while the program runs.
StorageRemoved ==
    /\ phase = "running"
    /\ disk # FreshDisk
    /\ disk' = FreshDisk
    /\ last' = Result("rm", None, None, "none")
    /\ UNCHANGED <<phase, memory, now, orm>>

\* ---------------------------------------- tkinter front end: the window

\* The tkinter window with the tables its handlers read and write, and what
\* the running handler has raised.  self.notes holds the instances the
\* queries returned, each with the column values it was loaded with;
\* current_note is one of them, named by its id.
Desk == [win |-> main_window, rows |-> notes, next |-> nextNote, raised |-> "none"]

\* "sub in s" of two strings.
SubstringIn(sub, s) ==
    \E i \in 0 .. Len(s) - Len(sub) : SubSeq(s, i + 1, i + Len(sub)) = sub

\* The text of a nullable column where the code writes "x or ''".
TextOf(o) == IF o = None THEN <<>> ELSE Val(o)

\* The place of current_note in self.notes.
CurrentPos(win) ==
    CHOOSE i \in DOMAIN win.notes : win.notes[i].id = Val(win.current_note)

\* MainWindow.setup_autosave: the timer in autosave_timer is cancelled and a
\* new one, with an id of its own, is scheduled.
SetupAutosave(win) ==
    LET kept == IF win.autosave_timer = None THEN win.after
                ELSE { t \in win.after : t.id # Val(win.autosave_timer) }
        id == CHOOSE i \in 1 .. Cardinality(kept) + 1 : i \notin { t.id : t \in kept }
    IN  [win EXCEPT !.after = kept \cup { [id |-> id, left |-> AutosavePeriod] },
                    !.autosave_timer = Some(id)]

\* MainWindow.update_editor.  A Text widget whose state is disabled ignores
\* delete and insert; the content is inserted at the start of what is left.
UpdateEditor(win) ==
    LET cleared == [win EXCEPT !.is_editing = FALSE, !.edited = FALSE,
                               !.text_editor = IF win.state = "normal" THEN <<>> ELSE @,
                               !.title_var = <<>>]
    IN  IF win.current_note = None THEN [cleared EXCEPT !.state = "disabled"]
        ELSE [cleared EXCEPT
                !.state = "normal",
                !.title_var = TextOf(win.notes[CurrentPos(win)].title),
                !.text_editor = TextOf(win.notes[CurrentPos(win)].content) \o @,
                !.color_var = IF IsNone(win.notes[CurrentPos(win)].color)
                              THEN "default" ELSE Val(win.notes[CurrentPos(win)].color),
                !.pin_var = win.notes[CurrentPos(win)].is_pinned,
                !.is_editing = TRUE]

RECURSIVE RenderNotes(_, _), SelectNote(_, _), TkSaveCurrentNote(_)

\* MainWindow.render_notes; shown is None or the list to display.  An item
\* is the note it shows with the index its click handler was bound to.
RenderNotes(w, shown) ==
    LET notes_to_render == IF shown = None THEN w.win.notes ELSE Val(shown)
        drawn == [w EXCEPT !.win.note_items =
                     { <<notes_to_render[i].id, i - 1>> : i \in DOMAIN notes_to_render }]
    IN  IF notes_to_render = <<>>
        THEN [w EXCEPT !.win.note_items = {}, !.win.state = "disabled"]
        ELSE IF w.win.current_note = None THEN SelectNote(drawn, 0)
        ELSE drawn

\* MainWindow.select_note
SelectNote(w, index) ==
    IF index < 0 \/ index >= Len(w.win.notes) THEN w
    ELSE LET s == IF w.win.is_editing /\ w.win.current_note # None
                  THEN TkSaveCurrentNote(w) ELSE w
         IN  IF s.raised # "none" THEN s
             ELSE [s EXCEPT !.win = UpdateEditor(
                      [s.win EXCEPT !.selected_note_index = index,
                                    !.current_note = Some(s.win.notes[index + 1].id)])]

\* MainWindow.save_current_note.  Note.update writes the row of the current
\* note; the instances in self.notes keep what they were loaded with.
TkSaveCurrentNote(w) ==
    IF w.win.current_note = None \/ ~w.win.is_editing THEN w
    ELSE IF \A i \in DOMAIN w.rows : w.rows[i].id # Val(w.win.current_note)
    THEN [w EXCEPT !.raised = "ValueError"]
    ELSE LET id == Val(w.win.current_note)
             content == Strip(w.win.text_editor)
             p == Patch(Some(w.win.title_var), Some(content), Some(content),
                        Some(w.win.color_var), Some(w.win.pin_var), None, None)
             k == CHOOSE i \in DOMAIN w.rows : w.rows[i].id = id
             saved == [w EXCEPT !.rows[k] = Flushed(@, Assigned(@, p)),
                                !.win.edited = FALSE]
             reloaded == OrderBy(saved.rows)
             found == CHOOSE i \in DOMAIN reloaded : reloaded[i].id = id
         IN  IF w.win.selected_note_index < 0 THEN saved
             ELSE IF w.win.selected_note_index >= Len(w.win.notes)
             THEN [saved EXCEPT !.raised = "IndexError"]
             ELSE IF w.win.pin_var # w.win.notes[w.win.selected_note_index + 1].is_pinned
             THEN RenderNotes([saved EXCEPT !.win.notes = reloaded,
                                            !.win.selected_note_index = found - 1], None)
             ELSE [saved EXCEPT !.win.note_items =
                                    @ \cup { <<id, w.win.selected_note_index>> }]

\* MainWindow.create_new_note
TkCreateNewNote(w) ==
    LET s == IF w.win.is_editing /\ w.win.current_note # None
             THEN TkSaveCurrentNote(w) ELSE w
        new_note == NewNote(Some(Untitled), Some(<<>>), Some(<<>>), Some("default"), None)
        created == [s EXCEPT !.rows = Append(@, new_note), !.next = @ + 1,
                             !.win.notes = <<new_note>> \o @]
    IN  IF s.raised # "none" THEN s
        ELSE IF RenderNotes(created, None).raised # "none" THEN RenderNotes(created, None)
        ELSE SelectNote(RenderNotes(created, None), 0)

\* MainWindow.delete_note with the answer to the question.  Note.delete is
\* called with the id in the place of the instance: self.id fails on it, and
\* the handler of that failure names logging, which note.py does not import.
DeleteNote(w, yes) ==
    IF w.win.current_note = None \/ ~yes THEN w
    ELSE [w EXCEPT !.raised = "NameError"]

\* MainWindow.on_search_changed, the trace of the search variable.
OnSearchChanged(w) ==
    LET search_text == LowerStr(w.win.search_var)
        matches(n) ==
            \/ SubstringIn(search_text, LowerStr(Val(n.title)))
            \/ /\ TextOf(n.plain_content) # <<>>
               /\ SubstringIn(search_text, LowerStr(Val(n.plain_content)))
    IN  IF search_text = <<"search notes...">> THEN w
        ELSE IF search_text = <<>> THEN RenderNotes(w, None)
        ELSE IF \E i \in DOMAIN w.win.notes : w.win.notes[i].title = None
        THEN [w EXCEPT !.raised = "AttributeError"]
        ELSE RenderNotes(w, Some(SelectSeq(w.win.notes, matches)))

\* MainWindow.show_smart_view for "all" and "pinned".
ShowSmartView(w, view_type) ==
    IF view_type = "all" THEN RenderNotes(w, None)
    ELSE RenderNotes(w, Some(SelectSeq(w.win.notes, LAMBDA n : n.is_pinned)))

\* MainWindow.toggle_pin, the command of the pin checkbox.
TkTogglePin(w) ==
    IF w.win.current_note = None THEN w
    ELSE TkSaveCurrentNote(
             [w EXCEPT !.win.notes[CurrentPos(w.win)].is_pinned = w.win.pin_var])

\* MainWindow.on_title_changed
OnTitleChanged(w) ==
    IF w.win.is_editing /\ w.win.current_note # None
    THEN [w EXCEPT !.win = SetupAutosave(
             [w.win EXCEPT !.notes[CurrentPos(w.win)].title = Some(w.win.title_var)])]
    ELSE w

\* MainWindow.on_text_changed
OnTextChanged(w) ==
    IF w.win.is_editing /\ w.win.current_note # None
    THEN [w EXCEPT !.win = SetupAutosave(w.win)]
    ELSE w

\* MainWindow.format_bullet_list, the command of the bullet button: the
\* bullet (U+2022, written "o" here) and a space are inserted at the start
\* of the line; no timer is touched.
FormatBulletList(w) ==
    IF ~w.win.is_editing THEN w
    ELSE [w EXCEPT !.win.text_editor = <<"o", " ">> \o @]

\* MainWindow.autosave
TkAutosave(w) ==
    LET s == IF w.win.is_editing /\ w.win.current_note # None
             THEN TkSaveCurrentNote(w) ELSE w
    IN  IF s.raised # "none" THEN s
        ELSE [s EXCEPT !.win = SetupAutosave(s.win)]

\* ---------------------------------------- tkinter front end: the actions

\* A handler has run to w.  An exception that leaves a handler is reported
\* by Tk and the main loop goes on with what the handler had done so far.
\* A commit that changed a row has written the database file.
TkBecomes(w, op, arg) ==
    /\ main_window' = w.win
    /\ notes' = w.rows
    /\ nextNote' = w.next
    /\ files' = IF w.rows = notes THEN files ELSE [files EXCEPT !.db = now]
    /\ last' = Result(op, arg, None, w.raised)
    /\ UNCHANGED <<now, tags, categories, note_tag, qt>>

\* C0lorNoteApp.__init__ up to MainWindow.__init__: the state variables,
\* load_notes and setup_autosave.  The user may start the program again
\* after it was closed.
MainWindowInit ==
    /\ main_window.phase \in {"start", "closed"}
    /\ LET loaded == RenderNotes([Desk EXCEPT !.win = [NewMainWindow EXCEPT
                                     !.phase = "running", !.notes = GetAll]], None)
       IN  TkBecomes([loaded EXCEPT !.win = SetupAutosave(loaded.win)],
                     "MainWindow.__init__", None)

\* A key is released in the title entry, which then holds text.
TitleKeyRelease(text) ==
    /\ main_window.phase = "running"
    /\ main_window.state = "normal"
    /\ TkBecomes(OnTitleChanged([Desk EXCEPT !.win.title_var = text, !.win.edited = TRUE]),
                 "on_title_changed", text)

\* A key is released in the text editor, which then holds text.
TextKeyRelease(text) ==
    /\ main_window.phase = "running"
    /\ main_window.state = "normal"
    /\ TkBecomes(OnTextChanged([Desk EXCEPT !.win.text_editor = text, !.win.edited = TRUE]),
                 "on_text_changed", text)

\* The search box holds text.
SearchTyped(text) ==
    /\ main_window.phase = "running"
    /\ TkBecomes(OnSearchChanged([Desk EXCEPT !.win.search_var = text]),
                 "on_search_changed", text)

\* A click on an item of the list.
NoteItemClicked(item) ==
    /\ main_window.phase = "running"
    /\ item \in main_window.note_items
    /\ TkBecomes(SelectNote(Desk, item[2]), "select_note", item)

\* "New Note" or Ctrl+N
NewNotePressed ==
    /\ main_window.phase = "running"
    /\ TkBecomes(TkCreateNewNote(Desk), "create_new_note", None)

\* Ctrl+S
SavePressed ==
    /\ main_window.phase = "running"
    /\ TkBecomes(TkSaveCurrentNote(Desk), "save_current_note", None)

\* "Delete" or Ctrl+D, and the answer to the question.
DeletePressed(yes) ==
    /\ main_window.phase = "running"
    /\ TkBecomes(DeleteNote(Desk, yes), "delete_note", yes)

\* A click on the pin checkbox: the checkbox changes pin_var, then toggle_pin.
PinClicked ==
    /\ main_window.phase = "running"
    /\ main_window.state = "normal"
    /\ TkBecomes(TkTogglePin([Desk EXCEPT !.win.pin_var = ~@, !.win.edited = TRUE]),
                 "toggle_pin", None)

\* "All Notes" or "Pinned" in the sidebar.
SmartViewClicked(view_type) ==
    /\ main_window.phase = "running"
    /\ TkBecomes(ShowSmartView(Desk, view_type), "show_smart_view", view_type)

\* The bullet button of the toolbar is pressed.
BulletPressed ==
    /\ main_window.phase = "running"
    /\ main_window.state = "normal"
    /\ TkBecomes(FormatBulletList([Desk EXCEPT !.win.edited = TRUE]),
                 "format_bullet_list", None)

\* Time passes for the timers that are not yet due.
Elapse ==
    /\ main_window.phase = "running"
    /\ \E t \in main_window.after : t.left > 0
    /\ main_window' = [main_window EXCEPT !.after =
           { [t EXCEPT !.left = IF @ > 0 THEN @ - 1 ELSE 0] : t \in @ }]
    /\ last' = Result("wait", None, None, "none")
    /\ UNCHANGED <<now, orm, qt, files>>

\* A due timer fires: MainWindow.autosave.
AutosaveFired ==
    /\ main_window.phase = "running"
    /\ \E t \in main_window.after :
          /\ t.left = 0
          /\ TkBecomes(TkAutosave([Desk EXCEPT !.win.after = @ \ {t}]), "autosave", None)

\* C0lorNoteApp.on_close.  MainWindow has no save_all_notes, so nothing is
\* saved; the window is destroyed with its timers.
OnClose ==
    /\ main_window.phase = "running"
    /\ main_window' = [main_window EXCEPT !.phase = "closed", !.after = {}]
    /\ last' = Result("on_close", None, None, "none")
    /\ UNCHANGED <<now, orm, qt, files>>

\* ---------------------------------------------------------- specification

\* The ids uuid4 hands out to the notes, in the order of their creation.
Ids == { 1, 2 }

\* Titles and names the callers use.
Titles == { <<"a">>, <<"b">> }
CatNames == { "work" }
\* Category ids a caller may pass; 1 is the first category, 2 never exists.
CatIds == { 1, 2 }

\* The patches the callers send.
Patches ==
    { Patch(Some(t), None, None, None, None, None, None) : t \in Titles }
    \cup { Patch(None, None, None, None, None, None, Some(n)) : n \in {<<>>, << <<"x">> >>} }
    \cup { Patch(None, None, None, None, Some(TRUE), Some(c), None) : c \in CatIds }

\* The tag lists of Note.create: none, one name, one name twice.
TagLists == { <<>>, << <<"x">> >>, << <<"x">>, <<"x">> >> }

\* The store under its mutating calls.
Next ==
    \/ Tick /\ UNCHANGED app
    \/ \E name \in CatNames : CategoryCreate(name) /\ UNCHANGED app
    \/ \E c \in {None, Some(1)}, tl \in TagLists :
          nextNote \in Ids /\ Create(Some(<<"a">>), Some(<<"c">>), Some(<<"c">>), Some("red"), c, tl) /\ UNCHANGED app
    \/ \E id \in Ids, p \in Patches : Update(id, p) /\ UNCHANGED app
    \/ \E id \in Ids : DeleteById(id) /\ UNCHANGED app
    \/ \E id \in Ids : Delete(id) /\ UNCHANGED app
    \/ \E id \in Ids : TogglePin(id) /\ UNCHANGED app

Spec == Init /\ [][Next]_vars

\* The store seen through its ordered queries: notes without or with a
\* title, pinned and unpinned, modified at different instants.
OrderNext ==
    \/ Tick /\ UNCHANGED app
    \/ \E t \in {None, Some(<<"a">>)} :
          nextNote <= MaxNotes /\ Create(t, None, None, None, None, <<>>) /\ UNCHANGED app
    \/ \E id \in 1 .. MaxNotes : TogglePin(id) /\ UNCHANGED app
    \/ \E id \in 1 .. MaxNotes : DeleteById(id) /\ UNCHANGED app
    \/ GetAllCall /\ UNCHANGED app
    \/ SearchCall(<<>>, None, {}, FALSE) /\ UNCHANGED app

OrderSpec == Init /\ [][OrderNext]_vars

\* The texts of the notes and of the queries of the search.
SearchTitles == { Some(<<"a">>), Some(<<"A", "b">>) }
SearchPlains == { None, Some(<<"b">>) }
QueryTexts == { <<>>, <<" ">>, <<"a">>, <<"B">>, <<"a", "b">>, <<"b", " ", "A">>,
                <<"a", " ", " ", "a">>, <<"_">> }

\* category_id, tag_ids and pinned_only of the calls: none, each alone, all.
Filters == { <<None, {}, FALSE>>, <<Some(1), {}, FALSE>>, <<None, {1}, FALSE>>,
             <<None, {}, TRUE>>, <<Some(1), {1}, TRUE>> }

SearchNext ==
    \/ \E name \in CatNames : CategoryCreate(name) /\ UNCHANGED app
    \/ \E t \in SearchTitles, pc \in SearchPlains, c \in {None, Some(1)}, tl \in TagLists :
          nextNote \in Ids /\ Create(t, None, pc, None, c, tl) /\ UNCHANGED app
    \/ \E id \in Ids : TogglePin(id) /\ UNCHANGED app
    \/ \E q \in QueryTexts, f \in Filters : SearchCall(q, f[1], f[2], f[3]) /\ UNCHANGED app

SearchSpec == Init /\ [][SearchNext]_vars

\* Tag names that differ only in letter case, and the lists made of them.
TagNames == { <<"x">>, <<"X">> }
CaseTagLists == { <<>>, << <<"x">> >>, << <<"X">> >>, << <<"x">>, <<"x">> >>,
                  << <<"x">>, <<"X">> >> }

\* The store under the calls that create tags and attach them to notes.
TagNext ==
    \/ \E name \in TagNames : TagCreate(name) /\ UNCHANGED app
    \/ \E name \in TagNames : TagGetOrCreate(name) /\ UNCHANGED app
    \/ \E tl \in CaseTagLists :
          nextNote \in Ids /\ Create(Some(<<"a">>), None, None, None, None, tl) /\ UNCHANGED app
    \/ \E id \in Ids, tl \in CaseTagLists :
          Update(id, Patch(None, None, None, None, None, None, Some(tl))) /\ UNCHANGED app
    \/ \E id \in Ids, name \in TagNames : AddTag(id, name) /\ UNCHANGED app
    \/ \E id \in Ids, name \in TagNames : RemoveTag(id, name) /\ UNCHANGED app

TagSpec == Init /\ [][TagNext]_vars

\* Two categories; a category is created while the ids in the table are the
\* first ones, so that the id of a new row is not the id of a stored row.
OwnerNames == { "work", "home" }

CategoryNext ==
    \/ Tick /\ UNCHANGED app
    \/ \E name \in OwnerNames :
          CategoryIds = 1 .. Len(categories) /\ CategoryCreate(name) /\ UNCHANGED app
    \/ \E c \in {None, Some(1), Some(2)}, tl \in {<<>>, << <<"x">> >>} :
          nextNote \in Ids /\ Create(Some(<<"a">>), None, None, None, c, tl) /\ UNCHANGED app
    \/ \E c \in CatIds : CategoryDelete(c) /\ UNCHANGED app

CategorySpec == Init /\ [][CategoryNext]_vars

\* The window holds at most this many notes.
MaxWindowNotes == 3

\* What the user types into the dialog and into the editor.
TitleTexts == { <<>>, <<"a", " ">> }
TagsTexts == { <<"x", ",", " ">> }
Typed == { <<"t">> }

\* Disks the program is started on: none yet, an empty directory, and
\* notes.json files it did not write: a note without created_date, a date
\* that is no ISO date in a document without categories and tags, and an
\* empty file.
InitialDisks ==
    << FreshDisk,
       [dir |-> TRUE, file |-> None],
       [dir |-> TRUE, file |-> Some(JsonDump(
           [notes |-> << [title |-> <<"a">>, modified_date |-> IsoFormat(0)] >>,
            categories |-> <<>>, tags |-> <<>>]))],
       [dir |-> TRUE, file |-> Some(JsonDump(
           [notes |-> << [title |-> <<"a">>, created_date |-> <<"?">>] >>]))],
       [dir |-> TRUE, file |-> Some(<<>>)] >>

LoadInit == \E i \in DOMAIN InitialDisks : InitWith(InitialDisks[i])

\* The PyQt program started again and again on what it finds on the disk.
LoadNext ==
    \/ Tick /\ UNCHANGED app
    \/ Launch /\ UNCHANGED desktop
    \/ \E makedirs_ok \in BOOLEAN : LoadNotes(makedirs_ok) /\ UNCHANGED desktop
    \/ \E text \in Typed : TypeText(text) /\ UNCHANGED desktop
    \/ \E index \in {0, 1} : NoteClicked(index, <<"ok", 0>>) /\ UNCHANGED desktop
    \/ \E o \in {<<"ok", 0>>, <<"write", 0>>} : SaveCurrentNoteTriggered(o) /\ UNCHANGED desktop
    \/ Closed(<<"ok", 0>>, <<"ok", 0>>) /\ UNCHANGED desktop
    \/ \E pieces \in Stops : KilledInSaveNotes(pieces) /\ UNCHANGED desktop
    \/ StorageRemoved /\ UNCHANGED desktop

LoadSpec == LoadInit /\ [][LoadNext]_vars

\* The PyQt program on a new disk, under its user and its file system.
AppNext ==
    \/ \E makedirs_ok \in BOOLEAN : LoadNotes(makedirs_ok) /\ UNCHANGED desktop
    \/ \E t \in TitleTexts, tt \in TagsTexts :
          Len(window_notes) < MaxWindowNotes /\ NewNoteClicked(t, FALSE, None, tt, <<"ok", 0>>) /\ UNCHANGED desktop
    \/ \E index \in 0 .. MaxWindowNotes - 1, o \in {<<"ok", 0>>, <<"makedirs", 0>>} :
          NoteClicked(index, o) /\ UNCHANGED desktop
    \/ \E o \in SaveOutcomes : SaveCurrentNoteTriggered(o) /\ UNCHANGED desktop
    \/ \E o \in SaveOutcomes : SaveNotesTriggered(o) /\ UNCHANGED desktop
    \/ \E o \in {<<"ok", 0>>, <<"open", 0>>} : DeleteTriggered(o) /\ UNCHANGED desktop
    \/ \E o \in SaveOutcomes : Closed(<<"ok", 0>>, o) /\ UNCHANGED desktop
    \/ \E pieces \in Stops : KilledInSaveNotes(pieces) /\ UNCHANGED desktop
    \/ StorageRemoved /\ UNCHANGED desktop

AppSpec == Init /\ [][AppNext]_vars

\* The filters of the sidebar and the texts of the search input.
SidebarFilters == { <<"all", <<>>>>, <<"recent", <<>>>>, <<"code", <<>>>>,
                    <<"category", <<"Code Snippets">>>>, <<"tag", <<"x">>>> }
SearchInputs == { <<>>, <<"a">> }

\* The PyQt program with its sidebar and its search input: notes are
\* selected, edited, saved, created and deleted while the list is filtered.
\* The saves succeed.
FilterNext ==
    \/ LoadNotes(TRUE) /\ UNCHANGED desktop
    \/ /\ Len(window_notes) < MaxWindowNotes
       /\ NewNoteClicked(<<"a">>, FALSE, None, <<"x">>, <<"ok", 0>>)
       /\ UNCHANGED desktop
    \/ \E index \in 0 .. MaxWindowNotes - 1 : NoteClicked(index, <<"ok", 0>>) /\ UNCHANGED desktop
    \/ \E text \in Typed : TypeText(text) /\ UNCHANGED desktop
    \/ SaveCurrentNoteTriggered(<<"ok", 0>>) /\ UNCHANGED desktop
    \/ DeleteTriggered(<<"ok", 0>>) /\ UNCHANGED desktop
    \/ \E f \in SidebarFilters : FilterClicked(f[1], f[2]) /\ UNCHANGED desktop
    \/ \E text \in SearchInputs : SearchInputChanged(text) /\ UNCHANGED desktop

FilterSpec == Init /\ [][FilterNext]_vars

\* The database written and backed up as the clock advances.
BackupNext ==
    \/ Tick /\ UNCHANGED app
    \/ \E t \in Titles :
          /\ nextNote <= MaxNotes
          /\ Create(Some(t), None, None, None, None, <<>>)
          /\ Written
          /\ UNCHANGED <<qt, main_window>>
    \/ BackupDatabase

BackupSpec == Init /\ [][BackupNext]_vars

\* What the user types into the title entry, the text editor and the search
\* box of the tkinter window.
TkTitles == { <<"b">> }
TkTexts == { <<"t">> }
TkSearches == { <<>>, <<"b">> }
\* The views that can empty the list are asked for while the editor holds
\* at most this many characters.
MaxText == 1

\* The tkinter program, started once on an empty database, under its user.
TkNext ==
    \/ main_window.phase = "start" /\ MainWindowInit
    \/ \E text \in TkTitles : TitleKeyRelease(text)
    \/ \E text \in TkTexts : TextKeyRelease(text)
    \/ \E text \in TkSearches :
          Len(main_window.text_editor) <= MaxText /\ SearchTyped(text)
    \/ \E item \in main_window.note_items : NoteItemClicked(item)
    \/ nextNote <= MaxNotes /\ NewNotePressed
    \/ SavePressed
    \/ DeletePressed(TRUE)
    \/ PinClicked
    \/ \E view_type \in {"all", "pinned"} :
          Len(main_window.text_editor) <= MaxText /\ SmartViewClicked(view_type)
    \/ Elapse
    \/ AutosaveFired
    \/ OnClose

TkSpec == Init /\ [][TkNext]_vars

\* The search box over a store that is filled before the window opens: notes
\* with and without a title, and texts of one and of two words.
BoxTitles == { None, Some(<<"a">>), Some(<<"A", "b">>) }
BoxTexts == { <<>>, <<"a">>, <<"B">>, <<"a", "b">>, <<"b", " ", "A">> }

TkSearchNext ==
    \/ \E t \in BoxTitles, pc \in SearchPlains :
          /\ main_window.phase = "start"
          /\ nextNote <= MaxNotes
          /\ Create(t, pc, pc, Some("default"), None, <<>>)
          /\ Written
          /\ UNCHANGED <<qt, main_window>>
    \/ main_window.phase = "start" /\ MainWindowInit
    \/ \E text \in BoxTexts : SearchTyped(text)

TkSearchSpec == Init /\ [][TkSearchNext]_vars

\* The window with its autosave timer: notes are created and selected, title
\* and text are edited, time passes and due timers fire.  The Tk main loop
\* runs a timer that is due, and time does not stop.
TimerNext ==
    \/ main_window.phase = "start" /\ MainWindowInit
    \/ nextNote <= MaxNotes /\ NewNotePressed
    \/ \E text \in TkTitles : TitleKeyRelease(text)
    \/ \E text \in TkTexts : TextKeyRelease(text)
    \/ \E item \in main_window.note_items : NoteItemClicked(item)
    \/ Len(main_window.text_editor) <= MaxText /\ BulletPressed
    \/ Elapse
    \/ AutosaveFired

TimerSpec == Init /\ [][TimerNext]_vars /\ WF_vars(Elapse) /\ WF_vars(AutosaveFired)

\* ------------------------------------------------------------------ claims

\* The rows of a result, each stored row exactly once.
IsPermutationOfNotes(g) ==
    /\ Len(g) = Len(notes)
    /\ \A i \in DOMAIN notes : \E j \in DOMAIN g : g[j] = notes[i]
    /\ \A i, j \in DOMAIN g : i # j => g[i].id # g[j].id

\* Pinned rows first, and modified_date non-increasing among the pinned and
\* among the unpinned rows.
PinnedFirstModifiedDescending(g) ==
    \A i, j \in DOMAIN g : i < j =>
        /\ g[j].is_pinned => g[i].is_pinned
        /\ g[i].is_pinned = g[j].is_pinned => g[i].modified_date >= g[j].modified_date

\* C1: in every state reached by Note.create, toggle_pin and delete_by_id
\* calls, Note.get_all() returns every stored note exactly once, the pinned
\* notes before the unpinned ones and, within each group, modified_date
\* non-increasing; the result of a get_all call is that sequence.
C1_GetAllOrdered ==
    /\ IsPermutationOfNotes(GetAll)
    /\ PinnedFirstModifiedDescending(GetAll)
    /\ last.op = "Note.get_all" => last.ret = GetAll

\* C1 witness: A unpinned and modified at T1, B pinned and modified at
\* T0 < T1, and get_all has returned [B, A].
C1_Witness ==
    /\ last.op = "Note.get_all"
    /\ Len(last.ret) = 2
    /\ last.ret[1].is_pinned /\ ~last.ret[2].is_pinned
    /\ last.ret[1].modified_date < last.ret[2].modified_date

\* C9: in every state, search with empty text and no other filter returns
\* the same notes in the same order as get_all().
C9_EmptySearchIsGetAll ==
    /\ Search(<<>>, None, {}, FALSE) = GetAll
    /\ (last.op = "Note.search" /\ last.arg = <<<<>>, None, {}, FALSE>>) => last.ret = GetAll

\* C9 witness: the empty search has returned two notes, an untitled unpinned
\* one after a pinned one that was modified earlier.
C9_Witness ==
    /\ last.op = "Note.search"
    /\ last.arg = <<<<>>, None, {}, FALSE>>
    /\ Len(last.ret) = 2
    /\ last.ret[1].is_pinned /\ ~last.ret[2].is_pinned
    /\ last.ret[1].modified_date < last.ret[2].modified_date
    /\ IsNone(last.ret[2].title)

\* The patch that holds a title and nothing else.
TitlePatch(t) == Patch(Some(t), None, None, None, None, None, None)

\* Every row but the one with primary key id is as it was.
OtherNotesUnchanged(id) ==
    /\ Len(notes') = Len(notes)
    /\ \A i \in DOMAIN notes : notes[i].id # id => notes'[i] = notes[i]

\* C2 (as claimed): update of a stored note with a title-only patch sets
\* the title and sets modified_date to the current time, and leaves the
\* note's other fields, its tags and every other note, tag and category
\* unchanged.
C2_TitleOnlyUpdate ==
    [][ \A id \in Ids, t \in Titles :
          (id \in NoteIds /\ Update(id, TitlePatch(t))) =>
              /\ NoteById(id)' = [NoteById(id) EXCEPT !.title = Some(t), !.modified_date = now]
              /\ OtherNotesUnchanged(id)
              /\ UNCHANGED <<tags, categories, note_tag>>
              /\ last'.raised = "none" ]_vars

\* C3 (as claimed): every update call that returns sets the note's
\* modified_date to the current time, whatever the patch.
C3_UpdateBumpsModified ==
    [][ \A id \in Ids, p \in Patches :
          (Update(id, p) /\ last'.raised = "none") => NoteById(id)'.modified_date = now ]_vars

\* C4 (as claimed): update and toggle_pin for an id that is not in the store
\* raise a not-found error and leave notes, tags and categories unchanged.
C4_UnknownIdRaises ==
    [][ \A id \in Ids :
          (id \notin NoteIds /\ ((\E p \in Patches : Update(id, p)) \/ TogglePin(id))) =>
              /\ last'.raised = "ValueError"
              /\ UNCHANGED store ]_vars

\* C5: delete_by_id (and delete) of a stored note returns true and removes
\* it; called for an id that was deleted before, it returns false, raises
\* nothing and leaves the store unchanged.
C5_DeleteTwice ==
    [][ \A id \in Ids :
          (DeleteById(id) \/ Delete(id)) =>
              /\ last'.raised = "none"
              /\ id \notin NoteIds'
              /\ id \in NoteIds => last'.ret = TRUE
              /\ (id < nextNote /\ id \notin NoteIds) => (last'.ret = FALSE /\ UNCHANGED store) ]_vars

\* C5 witness: a delete of an id that was handed out and deleted before has
\* returned false.
C5_Witness ==
    /\ last.op \in {"Note.delete_by_id", "Note.delete"}
    /\ last.arg < nextNote
    /\ last.ret = FALSE
    /\ notes # <<>>

\* C6: deleting a stored note removes its row and exactly its note_tag rows;
\* no tag and no category is removed and every other note is unchanged.
C6_DeleteKeepsTags ==
    [][ \A id \in Ids :
          (id \in NoteIds /\ (DeleteById(id) \/ Delete(id))) =>
              /\ notes' = SelectSeq(notes, LAMBDA r : r.id # id)
              /\ note_tag' = { q \in note_tag : q[1] # id }
              /\ \A o \in NoteIds \ {id} : NoteTags(o)' = NoteTags(o)
              /\ tags' = tags
              /\ categories' = categories ]_vars

\* C6 witness: after a delete that returned true a tag is in the store that
\* no note references, next to another note and a category.
C6_Witness ==
    /\ last.op = "Note.delete_by_id"
    /\ last.ret = TRUE
    /\ tags # <<>>
    /\ note_tag = {}
    /\ notes # <<>>
    /\ categories # <<>>

\* C7 (as claimed): toggle_pin of a stored note negates is_pinned, returns
\* the new value and changes no other field and no other note.
C7_ToggleChangesOnlyPinned ==
    [][ \A id \in Ids :
          (id \in NoteIds /\ TogglePin(id)) =>
              /\ NoteById(id)' = [NoteById(id) EXCEPT !.is_pinned = ~@]
              /\ last'.ret = NoteById(id)'.is_pinned
              /\ OtherNotesUnchanged(id) ]_vars

\* C7 (amended): toggle_pin of a stored note negates is_pinned, returns the
\* new value, sets modified_date to the current time and changes no other
\* field, no other note, no tag and no category; a toggle right after a
\* toggle of the same note restores the flag.
C7_ToggleFlipsAndBumps ==
    [][ \A id \in Ids :
          (id \in NoteIds /\ TogglePin(id)) =>
              /\ NoteById(id)' = [NoteById(id) EXCEPT !.is_pinned = ~@, !.modified_date = now]
              /\ last'.ret = ~NoteById(id).is_pinned
              /\ last'.raised = "none"
              /\ OtherNotesUnchanged(id)
              /\ UNCHANGED <<tags, categories, note_tag>>
              /\ (last.op = "Note.toggle_pin" /\ last.arg = id) =>
                     NoteById(id)'.is_pinned = ~last.ret ]_vars

\* C7 witness: a toggle has unpinned a note that carries a tag and a
\* category, later than its creation, next to another note.
C7_Witness ==
    /\ last.op = "Note.toggle_pin"
    /\ last.arg \in NoteIds
    /\ last.ret = FALSE
    /\ NoteById(last.arg).modified_date > NoteById(last.arg).created_date
    /\ NoteTags(last.arg) # {}
    /\ ~IsNone(NoteById(last.arg).category_id)
    /\ Len(notes) = 2

\* needle occurs in hay as a run of consecutive characters.
Contains(hay, needle) ==
    \E i \in 1 .. Len(hay) + 1 :
        /\ i + Len(needle) - 1 <= Len(hay)
        /\ SubSeq(hay, i, i + Len(needle) - 1) = needle

\* word occurs, letter case aside, in the title or in the plain-text content.
WordOccurs(r, word) ==
    \/ ~IsNone(r.title) /\ Contains(LowerStr(Val(r.title)), LowerStr(word))
    \/ ~IsNone(r.plain_content) /\ Contains(LowerStr(Val(r.plain_content)), LowerStr(word))

EveryWordOccurs(r, query_text) == \A w \in Range(Split(query_text)) : WordOccurs(r, w)

\* C8 (as claimed): a search for a text, without other filters, returns
\* exactly the notes in which every whitespace-separated word of the text
\* occurs, case-insensitively, as a substring of the title or of the
\* plain-text content.
C8_SearchEveryWord ==
    (last.op = "Note.search" /\ last.arg[2] = None /\ last.arg[3] = {} /\ last.arg[4] = FALSE) =>
        Range(last.ret) = { r \in Range(notes) : EveryWordOccurs(r, last.arg[1]) }

\* C10 (as claimed): a note is returned by search only if every word of the
\* text occurs in it, it belongs to the given category, carries every tag id
\* of tag_ids and is pinned when pinned_only is set; the result is in the
\* pinned-first, modified-descending order.
C10_FiltersConjoined ==
    last.op = "Note.search" =>
        /\ \A r \in Range(last.ret) :
              /\ r \in Range(notes)
              /\ EveryWordOccurs(r, last.arg[1])
              /\ ~IsNone(last.arg[2]) => r.category_id = last.arg[2]
              /\ \A t \in last.arg[3] : t \in NoteTags(r.id)
              /\ last.arg[4] => r.is_pinned
        /\ PinnedFirstModifiedDescending(last.ret)

\* No two rows of the tags table carry the same name.
NoTwoTagsShareName ==
    \A i, j \in DOMAIN tags : i # j => tags[i].name # tags[j].name

\* C11: after every call of Tag.get_or_create, Tag.create, Note.create,
\* Note.update, add_tag and remove_tag no two tags share a name;
\* get_or_create(name) returns the stored tag of that name and inserts
\* nothing when there is one, and inserts exactly one tag of that name and
\* returns it when there is none.
C11_TagNamesUnique ==
    [][ /\ NoTwoTagsShareName'
        /\ \A name \in TagNames :
              TagGetOrCreate(name) =>
                  /\ last'.raised = "none"
                  /\ IF \E i \in DOMAIN tags : tags[i].name = name
                     THEN /\ tags' = tags
                          /\ \E i \in DOMAIN tags :
                                tags[i].name = name /\ last'.ret = tags[i].id
                     ELSE /\ Len(tags') = Len(tags) + 1
                          /\ SubSeq(tags', 1, Len(tags)) = tags
                          /\ tags'[Len(tags')].name = name
                          /\ last'.ret = tags'[Len(tags')].id
                          /\ \A i \in DOMAIN tags : tags[i].id # last'.ret ]_vars

\* C11 witness: get_or_create has returned the first tag while a second tag,
\* whose name differs in letter case only, is stored, and a note carries a tag.
C11_Witness ==
    /\ last.op = "Tag.get_or_create"
    /\ Len(tags) = 2
    /\ last.ret = tags[1].id
    /\ note_tag # {}

\* C12 (as claimed): no note carries two tags of the same name, names that
\* differ only in letter case counted as the same, after any sequence of
\* Note.create, Note.update, add_tag and remove_tag calls.
C12_NoDuplicateTagNames ==
    \A id \in NoteIds : \A t1, t2 \in NoteTags(id) :
        t1 # t2 => LowerStr(TagName(t1)) # LowerStr(TagName(t2))

C15_EmptyTitleStored ==
    [][ \A tt \in TagsTexts :
          NewNoteClicked(<<>>, FALSE, None, tt, <<"ok", 0>>) =>
              window_notes'[Len(window_notes')].title = <<>> ]_vars

\* The attributes of a note that the claim lists.
NoteAttributes ==
    { "id", "title", "content", "is_code", "created_date", "modified_date", "color",
      "is_pinned", "category", "tags" }

\* Loading what save_notes writes for the window gives the notes, the
\* categories and the tags of the window, in their order.
LoadOfSaveIsIdentity ==
    /\ ~LoadRaises(JsonDump(SavedData(window_notes, sidebar)))
    /\ LoadedNotes(JsonDump(SavedData(window_notes, sidebar))) = window_notes
    /\ Get(JsonLoad(JsonDump(SavedData(window_notes, sidebar))), "categories", <<>>)
           = sidebar.categories
    /\ Get(JsonLoad(JsonDump(SavedData(window_notes, sidebar))), "tags", <<>>) = sidebar.tags

\* C16 (as claimed): the saved document carries, for every note, each of the
\* listed attributes, and loading it back gives the same notes, categories
\* and tags in the same order.
C16_RoundTrip ==
    /\ LoadOfSaveIsIdentity
    /\ \A i \in DOMAIN window_notes :
          NoteAttributes \subseteq DOMAIN SavedData(window_notes, sidebar).notes[i]

\* C17: load_notes that returns on a disk without notes.json leaves exactly
\* the two sample notes in the window, one rich-text note and one code note,
\* shows no error, and leaves the disk without notes.json.
C17_FirstLoadSeeds ==
    [][ \A makedirs_ok \in BOOLEAN :
          (disk.file = None /\ LoadNotes(makedirs_ok) /\ last'.raised = "none") =>
              /\ window_notes' = SampleNotes
              /\ Len(window_notes') = 2
              /\ Cardinality({ i \in DOMAIN window_notes' : window_notes'[i].is_code }) = 1
              /\ Cardinality({ i \in DOMAIN window_notes' : ~window_notes'[i].is_code }) = 1
              /\ sidebar' = SampleSidebar
              /\ last'.ret = None
              /\ disk'.file = None ]_vars

\* C17 witness: the program was started again after its directory had been
\* removed, and load_notes has put the two sample notes, made at that later
\* instant, into the window; there is still no notes.json.
C17_Witness ==
    /\ last.op = "load_notes"
    /\ last.raised = "none"
    /\ phase = "running"
    /\ disk = [dir |-> TRUE, file |-> None]
    /\ Len(window_notes) = 2
    /\ window_notes[1].created_date > 0
    /\ ~window_notes[1].is_code /\ window_notes[2].is_code

\* The keys Note.to_dict writes.
StoredAttributes ==
    { "title", "content", "is_code", "tags", "category", "created_date", "modified_date" }

\* A file that is no whole document, or lacks a key, an attribute of a note,
\* or holds a date that is no ISO date.
Corrupt(text) ==
    \/ ~IsJson(text)
    \/ Range(DocumentKeys) # DOMAIN JsonLoad(text)
    \/ \E i \in DOMAIN JsonLoad(text).notes :
          \/ DOMAIN JsonLoad(text).notes[i] # StoredAttributes
          \/ FromDictRaises(JsonLoad(text).notes[i])

\* C18 (as claimed): load_notes on a notes.json that is corrupt raises
\* nothing, shows the load error and leaves exactly the sample notes,
\* categories and tags in the window.
C18_CorruptLoadSeeds ==
    [][ (disk.file # None /\ LoadNotes(TRUE) /\ Corrupt(Val(disk.file))) =>
            /\ last'.raised = "none"
            /\ last'.ret = Some("Load Error")
            /\ window_notes' = SampleNotes
            /\ sidebar' = SampleSidebar ]_vars

\* C19 (as claimed): a save_notes call that fails raises nothing, shows the
\* save error, leaves the window's notes, categories and tags unchanged and
\* the program running.
C19_FailedSaveReported ==
    [][ \A o \in SaveOutcomes :
          (o[1] # "ok" /\ SaveNotesTriggered(o)) =>
              /\ last'.raised = "none"
              /\ last'.ret = Some("Save Error")
              /\ UNCHANGED memory
              /\ phase' = "running" ]_vars

\* C20 (as claimed): after a save_notes call that fails, or during which
\* the process is killed, notes.json is what it was before or the whole new
\* document.
C20_SaveAtomic ==
    [][ ((\E o \in SaveOutcomes : o[1] # "ok" /\ SaveNotesTriggered(o))
         \/ (\E pieces \in Stops : KilledInSaveNotes(pieces))) =>
            \/ disk'.file = disk.file
            \/ disk'.file = Some(JsonDump(SavedData(window_notes, sidebar))) ]_vars

\* C21: after every backup_database call that returns a path the backup
\* directory holds at most max_backups files, every file it kept is at least
\* as recently modified as every file it removed, the backup just made is
\* among the kept ones, and it did not replace an earlier backup.
C21_BackupsRetained ==
    [][ (last'.op = "backup_database" /\ last'.ret # None) =>
          /\ Cardinality(files'.backup_dir) <= max_backups
          /\ \A k \in files'.backup_dir, f \in files.backup_dir :
                f.name \notin FileNames(files'.backup_dir) => f.mtime <= k.mtime
          /\ Val(last'.ret) \in FileNames(files'.backup_dir)
          /\ Val(last'.ret) \notin FileNames(files.backup_dir) ]_vars

\* The row of the current note holds what the editor shows.
StoredMatchesEditor ==
    \E i \in DOMAIN notes :
        /\ notes[i].id = Val(main_window.current_note)
        /\ notes[i].title = Some(main_window.title_var)
        /\ notes[i].content = Some(Strip(main_window.text_editor))
        /\ notes[i].is_pinned = main_window.pin_var

Displayed(win) ==
    [ i \in 1 .. Cardinality(win.note_items) |->
        (CHOOSE item \in win.note_items : item[2] = i - 1)[1] ]

\* The ids of a sequence of rows.
IdsOf(rows) == [ i \in DOMAIN rows |-> rows[i].id ]

EditOps == { "on_title_changed", "on_text_changed", "format_bullet_list" }

C29_IndexKeepsItsNote ==
    [][ /\ last'.op \in {"save_current_note", "handle_note_selection", "create_new_note"}
            => last'.raised # "IndexError"
        /\ ( /\ current_note_index >= 0
             /\ last'.op \notin {"handle_note_selection", "create_new_note"} ) =>
               \/ current_note_index' = -1
               \/ /\ current_note_index' < Len(filtered_notes')
                  /\ filtered_notes'[current_note_index' + 1]
                         = filtered_notes[current_note_index + 1] ]_vars

====
